---- MODULE Spec2Model ----
(***************************************************************************)
(* Location sharing and presence subsystem of the production tracker:      *)
(*   - the grid codec            (src/utils/gridUtils.ts)                  *)
(*   - the presence classifier   (src/components/UserTrackingPage.tsx)     *)
(*   - the location publisher    (src/components/LocationToggle.tsx and    *)
(*                                its later revision kept in               *)
(*                                src/components/WorkEntryForm.tsx)        *)
(*   - the location_shares table (migration, src/unnamed/part_005)         *)
(*                                                                         *)
(* Numbers.  A coordinate is a JavaScript number of degrees.  The model    *)
(* keeps it as an integer count of 1/(1000*Resolution) degree, so that     *)
(* lat * 1000 is the rational lat / Resolution and Math.floor is \div.     *)
(* IEEE rounding of (k/1000)*1000 is exact for every integer k in          *)
(* -200..1000, the range the decoder produces here.                        *)
(* Strings are sequences of UTF-16 code units.                             *)
(***************************************************************************)
EXTENDS Integers, Sequences, FiniteSets, TLC

\* ------------------------------------------------------------------ bounds
Resolution == 2        \* readings distinguished per millidegree
MaxLatMilli == 27      \* latitudes  -MaxLatMilli .. MaxLatMilli millidegrees
MaxLngMilli == 100     \* longitudes -MaxLngMilli .. MaxLngMilli millidegrees
MaxStrLen == 4         \* length of the arbitrary strings fed to gridToCoords
MaxNumber == 120       \* largest number part of the formatted labels fed to it

\* --------------------------------------------------------- program constants
Scale == 1000          \* lat * 1000, latBase / 1000
LatCells == 26         \* % 26
LngCells == 99         \* % 99
CharA == 65            \* String.fromCharCode(65 + latBase), charCodeAt(0) - 65
Colon == 58            \* ':' of the template literal and of the pattern
Radix == 10            \* decimal digits of `${number}` and of parseInt

CharZ == CharA + LatCells - 1
Char0 == 48            \* '0', the first code unit \d admits
Minus == 45            \* '-', the sign `${number}` writes for a negative number
Char9 == Char0 + Radix - 1
LowerA == CharA + 32
AtSign == CharA - 1
Space == Char0 - 16

Unit == Scale * Resolution     \* model units per degree

MaxWrites == 3         \* bound: upserts sent in one run
MaxCommits == 2        \* bound: writes of the team in one run of a view or of the policies
MaxMinutes == 32       \* bound: ages up to MaxMinutes minutes are classified

OnlineMinutes == 5     \* minutesDiff < 5
RecentMinutes == 30    \* minutesDiff < 30
MsPerMinute == 1000 * 60

\* ------------------------------------------------------------------- state
VARIABLES
  cLat, cLng,     \* the reading given to coordsToGrid
  cGrid,          \* the string given to gridToCoords
  cLabel,         \* coordsToGrid(cLat, cLng)
  cCoords,        \* the last result of gridToCoords
  cRelabel,       \* coordsToGrid of the decoded label
  cStep           \* where the codec run stands

VARIABLES
  pRow,           \* the location row being rendered: is_sharing, last_updated (ms)
  pNow,           \* the wall clock, in ms
  pColor,         \* the last getStatusColor(pRow), with the time it was computed at
  pText           \* the last getStatusText(pRow), with the time it was computed at

VARIABLES
  revision,           \* which revision of LocationToggle the clients run
  selectedProduction, \* per user: the selectedProduction prop
  isSharing,          \* per user: useState(false)
  loading,            \* per user: useState(false)
  geo,                \* per user: { latitude, longitude, error } of useGeolocation()
  toggling,           \* per user: the toggleLocationSharing call suspended at its await
  toast,              \* per user: the last toast shown
  writes,             \* upsert requests sent and not yet handled by the store
  reads,              \* is_sharing selects sent and not yet answered
  responses,          \* results of upserts on their way back to the client
  store,              \* the rows of public.location_shares
  clock               \* new Date() of the last write issued

VARIABLES
  viewFile,           \* which view component is on screen
  mounted,            \* the view is mounted
  viewProduction,     \* the selectedProduction prop of the view
  locations,          \* useState([]): the rows the view displays
  viewLoading,        \* useState(false): the view's loading flag
  channels,           \* productions a change-feed channel of the view filters on
  intervals,          \* productions a setInterval of the view re-fetches
  fetches,            \* selects of the view sent and not yet resumed
  events              \* productions with a change event on its way to a channel

codecVars == <<cLat, cLng, cGrid, cLabel, cCoords, cRelabel, cStep>>
presenceVars == <<pRow, pNow, pColor, pText>>
clientVars == <<selectedProduction, isSharing, loading, geo, toggling, toast>>
netVars == <<writes, reads, responses>>
publisherVars == <<revision, clientVars, netVars, store, clock>>

viewVars == <<viewFile, mounted, viewProduction, locations, viewLoading,
             channels, intervals, fetches, events>>

vars == <<codecVars, presenceVars, publisherVars, viewVars>>

\* ------------------------------------------------------------ JS arithmetic
\* The JavaScript % operator: the remainder takes the sign of the dividend.
JsRem(a, b) == IF a >= 0 THEN a % b ELSE -((-a) % b)

\* Math.floor(x * 1000) of a coordinate x kept in model units.
FloorScaled(x) == x \div Resolution

\* `${n}` of an integer n: optional '-', then the decimal digits.
RECURSIVE DigitsOf(_)
DigitsOf(n) ==
  IF n < Radix THEN <<Char0 + n>>
  ELSE DigitsOf(n \div Radix) \o <<Char0 + (n % Radix)>>

NumberToString(n) == IF n < 0 THEN <<Minus>> \o DigitsOf(-n) ELSE DigitsOf(n)

\* parseInt of a non-empty string of decimal digits.
RECURSIVE parseInt(_)
parseInt(ds) ==
  IF Len(ds) = 0 THEN 0
  ELSE Radix * parseInt(SubSeq(ds, 1, Len(ds) - 1)) + (ds[Len(ds)] - Char0)

\* ------------------------------------------------------------- gridUtils.ts
coordsToGrid(lat, lng) ==
  LET latBase == JsRem(FloorScaled(lat), LatCells)
      lngBase == JsRem(FloorScaled(lng), LngCells)
      letter  == <<CharA + latBase>>
      number  == lngBase + 1
  IN  letter \o <<Colon>> \o NumberToString(number)

\* The end (exclusive) of the longest run of \d starting at position i.
RECURSIVE DigitRunEnd(_, _)
DigitRunEnd(s, i) ==
  IF i <= Len(s) /\ s[i] >= Char0 /\ s[i] <= Char9
  THEN DigitRunEnd(s, i + 1)
  ELSE i

NoMatch == [matched |-> FALSE]

\* grid.match(/^([A-Z]):(\d+)$/) with the end anchor dropped.
GridMatchUnanchored(grid) ==
  IF Len(grid) < 1 \/ grid[1] < CharA \/ grid[1] > CharZ THEN NoMatch
  ELSE IF Len(grid) < 2 \/ grid[2] # Colon THEN NoMatch
  ELSE LET e == DigitRunEnd(grid, 3)
       IN  IF e = 3 THEN NoMatch
           ELSE [matched |-> TRUE, g1 |-> <<grid[1]>>, g2 |-> SubSeq(grid, 3, e - 1)]

\* grid.match(/^([A-Z]):(\d+)$/)
GridMatch(grid) ==
  IF Len(grid) < 1 \/ grid[1] < CharA \/ grid[1] > CharZ THEN NoMatch
  ELSE IF Len(grid) < 2 \/ grid[2] # Colon THEN NoMatch
  ELSE LET e == DigitRunEnd(grid, 3)
       IN  IF e = 3 \/ e # Len(grid) + 1 THEN NoMatch
           ELSE [matched |-> TRUE, g1 |-> <<grid[1]>>, g2 |-> SubSeq(grid, 3, Len(grid))]

NULL == [null |-> TRUE]

\* gridToCoords without the "number - 1" of line 23.
gridToCoordsNoOffset(grid) ==
  LET match == GridMatch(grid)
  IN  IF ~match.matched THEN NULL
      ELSE [null |-> FALSE,
            lat  |-> ((match.g1[1] - CharA) * Unit) \div Scale,
            lng  |-> (parseInt(match.g2) * Unit) \div Scale]

gridToCoords(grid) ==
  LET match == GridMatch(grid)
  IN  IF ~match.matched THEN NULL
      ELSE LET letter  == match.g1
               number  == parseInt(match.g2)
               latBase == letter[1] - CharA
               lngBase == number - 1
           IN  [null |-> FALSE,
                lat  |-> (latBase * Unit) \div Scale,
                lng  |-> (lngBase * Unit) \div Scale]

\* ------------------------------------------------------- publisher: data
Users == {"u1", "u2"}
Productions == {"pA", "pB"}
None == "none"                 \* selectedProduction === null

\* A nullable number: null is <<>>, the number x is <<x>>.
Null == <<>>
Num(x) == <<x>>
Truthy(v) == v # Null /\ v[1] # 0        \* JavaScript truthiness of number | null

Idle == [state |-> "idle"]

Rev1 == "LocationToggle.tsx"   \* src/components/LocationToggle.tsx, lines 1-170
Rev2 == "WorkEntryForm.tsx"    \* the later revision, src/components/WorkEntryForm.tsx, lines 170-402

\* --------------------------------------------------------- codec harness
Pending == [pending |-> TRUE]

Latitudes  == (-MaxLatMilli * Resolution) .. (MaxLatMilli * Resolution)
Longitudes == (-MaxLngMilli * Resolution) .. (MaxLngMilli * Resolution)

\* The scenario reading of the specification, (40.0, -74.0), in model units.
Landmarks == { <<40 * Unit, (-74) * Unit>>, <<(-40) * Unit, 74 * Unit>> }

Alphabet == {CharA, CharZ, LowerA, AtSign, Colon, Char0, Char0 + 1, Char9, Minus, Space}

RECURSIVE StringsUpTo(_)
StringsUpTo(n) ==
  IF n = 0 THEN { <<>> }
  ELSE LET shorter == StringsUpTo(n - 1)
       IN  shorter \cup { Append(s, c) : s \in { t \in shorter : Len(t) = n - 1 }, c \in Alphabet }

\* Labels written the way coordsToGrid writes them, with letters one past
\* either end of 'A'..'Z' and numbers from below 1 to above 99.
FormattedLabels ==
  { <<l, Colon>> \o NumberToString(n) : l \in (CharA - 1) .. (CharZ + 1), n \in (-2) .. MaxNumber }

\* Digit strings with a leading zero.
PaddedLabels ==
  { <<l, Colon, Char0>> \o NumberToString(n) : l \in {CharA, CharZ}, n \in 0 .. MaxNumber }

\* "not-a-grid"
NotAGrid == <<110, 111, 116, Minus, 97, Minus, 103, 114, 105, 100>>

GridInputs == StringsUpTo(MaxStrLen) \cup FormattedLabels \cup PaddedLabels \cup {NotAGrid}

CodecAtRest ==
  /\ cLat = 0 /\ cLng = 0 /\ cGrid = <<>> /\ cLabel = <<>>
  /\ cCoords = Pending /\ cRelabel = <<>> /\ cStep = "input"

PresenceAtRest ==
  /\ pRow = [is_sharing |-> FALSE, last_updated |-> 0]
  /\ pNow = 0
  /\ pColor = [at |-> -1, value |-> "none"]
  /\ pText = [at |-> -1, value |-> "none"]

PublisherAtRest ==
  /\ revision = Rev1
  /\ selectedProduction = [u \in Users |-> None]
  /\ isSharing = [u \in Users |-> FALSE]
  /\ loading = [u \in Users |-> FALSE]
  /\ geo = [u \in Users |-> [latitude |-> Null, longitude |-> Null, error |-> FALSE]]
  /\ toggling = [u \in Users |-> Idle]
  /\ toast = [u \in Users |-> "none"]
  /\ writes = {} /\ reads = {} /\ responses = {}
  /\ store = {}
  /\ clock = 0

ViewsAtRest ==
  /\ viewFile = "LocationMap.tsx" /\ mounted = FALSE /\ viewProduction = None
  /\ locations = {} /\ viewLoading = FALSE
  /\ channels = {} /\ intervals = {} /\ fetches = {} /\ events = {}

CodecInit ==
  /\ \/ /\ \E p \in (Latitudes \X Longitudes) \cup Landmarks :
              cLat = p[1] /\ cLng = p[2]
        /\ cGrid = <<>>
     \/ /\ cLat = 0 /\ cLng = 0
        /\ cGrid \in GridInputs
  /\ cLabel = <<>>
  /\ cCoords = Pending
  /\ cRelabel = <<>>
  /\ cStep = "input"

\* label = coordsToGrid(lat, lng)
Encode ==
  /\ cStep = "input"
  /\ cLabel' = coordsToGrid(cLat, cLng)
  /\ cStep' = "encoded"
  /\ UNCHANGED <<cLat, cLng, cGrid, cCoords, cRelabel>>
  /\ UNCHANGED <<presenceVars, publisherVars, viewVars>>

\* coords = gridToCoords(label)
DecodeLabel ==
  /\ cStep = "encoded"
  /\ cCoords' = gridToCoords(cLabel)
  /\ cStep' = "decoded"
  /\ UNCHANGED <<cLat, cLng, cGrid, cLabel, cRelabel>>
  /\ UNCHANGED <<presenceVars, publisherVars, viewVars>>

\* coords && coordsToGrid(coords.lat, coords.lng)
ReEncode ==
  /\ cStep = "decoded"
  /\ cCoords # NULL
  /\ cRelabel' = coordsToGrid(cCoords.lat, cCoords.lng)
  /\ cStep' = "reencoded"
  /\ UNCHANGED <<cLat, cLng, cGrid, cLabel, cCoords>>
  /\ UNCHANGED <<presenceVars, publisherVars, viewVars>>

\* coords = gridToCoords(grid) of an arbitrary string
Parse ==
  /\ cStep = "input"
  /\ cCoords' = gridToCoords(cGrid)
  /\ cStep' = "parsed"
  /\ UNCHANGED <<cLat, cLng, cGrid, cLabel, cRelabel>>
  /\ UNCHANGED <<presenceVars, publisherVars, viewVars>>

CodecNext == Encode \/ DecodeLabel \/ ReEncode \/ Parse

InitCodec == CodecInit /\ PresenceAtRest /\ PublisherAtRest /\ ViewsAtRest

SpecCodec == InitCodec /\ [][CodecNext]_vars

\* ------------------------------------------------ UserTrackingPage.tsx: presence
\* minutesDiff < m, where minutesDiff = timeDiff / (1000 * 60) is the exact quotient.
MinutesBelow(timeDiff, m) == timeDiff < m * MsPerMinute

\* getStatusText without its first line.
getStatusTextIgnoringFlag(location, now) ==
  LET timeDiff == now - location.last_updated
  IN  IF MinutesBelow(timeDiff, OnlineMinutes) THEN "Online"
      ELSE IF MinutesBelow(timeDiff, RecentMinutes) THEN "Recently active"
      ELSE "Offline"

\* getStatusColor with <= 5 in place of < 5.
getStatusColorInclusive(location, now) ==
  IF ~location.is_sharing THEN "bg-gray-500"
  ELSE LET timeDiff == now - location.last_updated
       IN  IF timeDiff <= OnlineMinutes * MsPerMinute THEN "bg-green-500"
           ELSE IF MinutesBelow(timeDiff, RecentMinutes) THEN "bg-yellow-500"
           ELSE "bg-red-500"

getStatusColor(location, now) ==
  IF ~location.is_sharing THEN "bg-gray-500"
  ELSE LET timeDiff == now - location.last_updated
       IN  IF MinutesBelow(timeDiff, OnlineMinutes) THEN "bg-green-500"
           ELSE IF MinutesBelow(timeDiff, RecentMinutes) THEN "bg-yellow-500"
           ELSE "bg-red-500"

getStatusText(location, now) ==
  IF ~location.is_sharing THEN "Not sharing"
  ELSE LET timeDiff == now - location.last_updated
       IN  IF MinutesBelow(timeDiff, OnlineMinutes) THEN "Online"
           ELSE IF MinutesBelow(timeDiff, RecentMinutes) THEN "Recently active"
           ELSE "Offline"

\* ------------------------------------------------------- presence harness
NotRendered == [at |-> -1, value |-> "none"]

\* Offsets within a minute: the boundary, 1 ms either side of it, and 59 s.
Offsets == {-1, 0, 1, 59 * 1000}

Ages == { m * MsPerMinute + d : m \in 0 .. MaxMinutes, d \in Offsets }

\* last_updated values: one hour and two hours after the epoch.
Stamps == { 60 * MsPerMinute, 120 * MsPerMinute }

PresenceInit ==
  /\ pRow \in [is_sharing : BOOLEAN, last_updated : Stamps]
  /\ \E age \in Ages : pNow = pRow.last_updated + age
  /\ pColor = NotRendered
  /\ pText = NotRendered

\* One render of a row evaluates getStatusColor (line 228) and then
\* getStatusText (line 229); each reads the clock with its own new Date().
RenderColor ==
  /\ pColor' = [at |-> pNow, value |-> getStatusColor(pRow, pNow)]
  /\ pText' = NotRendered
  /\ UNCHANGED <<pRow, pNow>>
  /\ UNCHANGED <<codecVars, publisherVars, viewVars>>

RenderText ==
  /\ pColor # NotRendered
  /\ pText = NotRendered
  /\ pText' = [at |-> pNow, value |-> getStatusText(pRow, pNow)]
  /\ UNCHANGED <<pRow, pNow, pColor>>
  /\ UNCHANGED <<codecVars, publisherVars, viewVars>>

\* A millisecond passes between the two evaluations of one render.
ClockTick ==
  /\ pColor # NotRendered
  /\ pColor.at = pNow
  /\ pText = NotRendered
  /\ (pNow - pRow.last_updated) \in Ages     \* keeps the clock within the sampled ages
  /\ pNow' = pNow + 1
  /\ UNCHANGED <<pRow, pColor, pText>>
  /\ UNCHANGED <<codecVars, publisherVars, viewVars>>

\* Time passes until a later render, which starts afresh.
ClockAdvance ==
  /\ \E age \in Ages :
        /\ pRow.last_updated + age > pNow
        /\ pNow' = pRow.last_updated + age
  /\ pColor' = NotRendered
  /\ pText' = NotRendered
  /\ UNCHANGED pRow
  /\ UNCHANGED <<codecVars, publisherVars, viewVars>>

PresenceNext == RenderColor \/ RenderText \/ ClockTick \/ ClockAdvance

InitPresence == PresenceInit /\ CodecAtRest /\ PublisherAtRest /\ ViewsAtRest

SpecPresence == InitPresence /\ [][PresenceNext]_vars

\* ------------------------------------------- location_shares (migration)
\* CREATE TABLE public.location_shares: id is the primary key, defaulting to
\* gen_random_uuid(); a column the INSERT does not name is NULL.
NewRow(req) ==
  [id |-> req.id, user_id |-> req.user_id, production_id |-> req.production_id,
   latitude |-> req.latitude, longitude |-> req.longitude,
   grid_reference |-> req.grid_reference,
   is_sharing |-> req.is_sharing, last_updated |-> req.last_updated]

\* UNIQUE(user_id, production_id)
UniqueViolation(rows, row) ==
  \E r \in rows : r.id # row.id /\ r.user_id = row.user_id
                   /\ r.production_id = row.production_id

\* A policy FOR ALL that lets every signed-in user through.
PolicyAllowsAnyone(auth, row) == TRUE

\* CREATE POLICY "Users can manage their own location shares"
\*   FOR ALL USING (user_id = auth.uid())
PolicyAllows(auth, row) == row.user_id = auth

\* The rows of public.user_productions: who is a member of which production.
user_productions == { <<"u1", "pA">>, <<"u1", "pB">>, <<"u2", "pA">> }

\* CREATE POLICY "Users can view location shares in their productions"
\*   FOR SELECT USING (production_id IN (SELECT production_id FROM
\*   public.user_productions WHERE user_id = auth.uid()))
\* Permissive policies add up: the FOR ALL policy admits the user's own rows.
PolicySelect(auth, rows) ==
  { r \in rows : \/ <<auth, r.production_id>> \in user_productions
                 \/ PolicyAllows(auth, r) }

\* .upsert({...}) with no onConflict option: INSERT ... ON CONFLICT (id) DO
\* UPDATE.  The values carry no id, so the row gets a fresh one and the only
\* conflict the statement arbitrates, on the primary key, cannot arise; a row
\* of the same (user_id, production_id) is a unique violation.
\* The policy is checked on the row proposed and, on the update path, on the
\* row it would replace.
Upsert(rows, req) ==
  LET row == NewRow(req)
      old == {r \in rows : r.id = row.id}
  IN  IF ~PolicyAllows(req.auth, row) \/ \E r \in old : ~PolicyAllows(req.auth, r)
        THEN [rows |-> rows, error |-> "42501"]
      ELSE IF UniqueViolation(rows, row) THEN [rows |-> rows, error |-> "23505"]
      ELSE [rows |-> (rows \ old) \cup {row}, error |-> "none"]

\* .select('is_sharing').eq('user_id', ...).eq('production_id', ...)
\* with .single() / .maybeSingle(): the row's is_sharing, "none" for no row,
\* "several" for more than one.
SelectStatus(rows, u, p) ==
  LET found == {r \in rows : r.user_id = u /\ r.production_id = p}
  IN  IF Cardinality(found) = 1
      THEN (IF (CHOOSE r \in found : TRUE).is_sharing THEN "true" ELSE "false")
      ELSE IF found = {} THEN "none"
      ELSE "several"

\* ------------------------------------------------ LocationToggle component
\* if (isSharing && latitude && longitude && selectedProduction), without isSharing
PublishGuardNoSharing(sharing, g, prod) ==
  Truthy(g.latitude) /\ Truthy(g.longitude) /\ prod # None

\* if (isSharing && latitude && longitude && selectedProduction)
PublishGuard(sharing, g, prod) ==
  sharing /\ Truthy(g.latitude) /\ Truthy(g.longitude) /\ prod # None

\* updateLocation with gridRef computed from the swapped coordinates.
updateLocationSwappedGrid(u, sharing, g, prod, origin, t) ==
  IF ~Truthy(g.latitude) \/ ~Truthy(g.longitude) \/ prod = None THEN {}
  ELSE { [id |-> t, auth |-> u, origin |-> origin,
          user_id |-> u, production_id |-> prod,
          latitude |-> g.latitude, longitude |-> g.longitude,
          grid_reference |-> coordsToGrid(g.longitude[1], g.latitude[1]),
          is_sharing |-> sharing, last_updated |-> t] }

\* updateLocation of a render that holds (sharing, g, prod): the requests it
\* sends, stamped new Date() = t.
updateLocation(u, sharing, g, prod, origin, t) ==
  IF ~Truthy(g.latitude) \/ ~Truthy(g.longitude) \/ prod = None THEN {}
  ELSE { [id |-> t, auth |-> u, origin |-> origin,
          user_id |-> u, production_id |-> prod,
          latitude |-> g.latitude, longitude |-> g.longitude,
          grid_reference |-> coordsToGrid(g.latitude[1], g.longitude[1]),
          is_sharing |-> sharing, last_updated |-> t] }

\* The upsert of the disable branch: no coordinates, is_sharing: false.
flagUpsert(u, prod, t) ==
  { [id |-> t, auth |-> u, origin |-> "toggle",
     user_id |-> u, production_id |-> prod,
     latitude |-> Null, longitude |-> Null, grid_reference |-> Null,
     is_sharing |-> FALSE, last_updated |-> t] }

\* The publish effect after a commit that takes user u to (sharing, g, prod):
\* it runs when one of its dependencies changed.
PublishEffect(u, sharing, g, prod, t) ==
  IF /\ <<g.latitude, g.longitude, sharing, prod>> #
          <<geo[u].latitude, geo[u].longitude, isSharing[u], selectedProduction[u]>>
     /\ PublishGuard(sharing, g, prod)
  THEN updateLocation(u, sharing, g, prod, "effect", t)
  ELSE {}

\* Sending: the requests go on the wire and the clock moves past their stamps.
Send(sent) ==
  /\ clock + Cardinality(sent) <= MaxWrites
  /\ writes' = writes \cup sent
  /\ clock' = clock + Cardinality(sent)

\* <Switch disabled={!selectedProduction || !!geoError} />
SwitchDisabledIgnoringLoading(u) ==
  selectedProduction[u] = None \/ geo[u].error

\* <Switch disabled={!selectedProduction || loading} />
SwitchDisabledIgnoringGeoError(u) ==
  selectedProduction[u] = None \/ loading[u]

\* <Switch disabled={!selectedProduction || loading || !!geoError} />
SwitchDisabled(u) ==
  selectedProduction[u] = None \/ loading[u] \/ geo[u].error

\* The parent passes another selectedProduction.  Effect 1 fetches the stored
\* flag (the later revision resets isSharing when nothing is selected);
\* effect 2 publishes if its guard holds.
SelectProduction(u, p) ==
  /\ p # selectedProduction[u]
  /\ LET sharing == IF revision = Rev2 /\ p = None THEN FALSE ELSE isSharing[u]
         fetch   == IF p # None
                    THEN {[auth |-> u, production_id |-> p]}
                    ELSE {}
     IN  /\ Send(PublishEffect(u, sharing, geo[u], p, clock + 1))
         /\ reads' = reads \cup fetch
         /\ selectedProduction' = [selectedProduction EXCEPT ![u] = p]
         /\ isSharing' = [isSharing EXCEPT ![u] = sharing]
  /\ UNCHANGED <<revision, loading, geo, toggling, toast, responses, store>>
  /\ UNCHANGED <<codecVars, presenceVars, viewVars>>

\* useGeolocation() delivers a reading.
GeoFix(u, f) ==
  LET g == [latitude |-> Num(f[1]), longitude |-> Num(f[2]), error |-> FALSE]
  IN  /\ g # geo[u]
      /\ Send(PublishEffect(u, isSharing[u], g, selectedProduction[u], clock + 1))
      /\ geo' = [geo EXCEPT ![u] = g]
      /\ UNCHANGED <<revision, selectedProduction, isSharing, loading, toggling, toast,
                     reads, responses, store>>
      /\ UNCHANGED <<codecVars, presenceVars, viewVars>>

\* useGeolocation() reports an error (permission denied, unavailable).
GeoError(u) ==
  /\ ~geo[u].error
  /\ geo' = [geo EXCEPT ![u].error = TRUE]
  /\ UNCHANGED <<revision, selectedProduction, isSharing, loading, toggling, toast,
                 netVars, store, clock>>
  /\ UNCHANGED <<codecVars, presenceVars, viewVars>>

\* toggleLocationSharing(enabled) up to its await, called by the Switch with
\* enabled = !checked; the body reads the render's isSharing, latitude,
\* longitude and selectedProduction.
Toggle(u) ==
  /\ ~SwitchDisabled(u)
  /\ LET enabled == ~isSharing[u]
         g       == geo[u]
         prod    == selectedProduction[u]
         hasFix  == Truthy(g.latitude) /\ Truthy(g.longitude)
     IN  IF g.error /\ (revision = Rev1 \/ enabled)
         THEN \* if (geoError) { toast(...); return; }  -- the later revision
              \* has if (enabled && geoError)
              /\ toast' = [toast EXCEPT ![u] = "error"]
              /\ UNCHANGED <<isSharing, loading, toggling, writes, clock>>
         ELSE IF enabled /\ hasFix
         THEN \* setIsSharing(true); await updateLocation()
              /\ Send(updateLocation(u, isSharing[u], g, prod, "toggle", clock + 1)
                        \cup PublishEffect(u, TRUE, g, prod, clock + 2))
              /\ isSharing' = [isSharing EXCEPT ![u] = TRUE]
              /\ loading' = [loading EXCEPT ![u] = TRUE]
              /\ toggling' = [toggling EXCEPT ![u] =
                    [state |-> "await", enabled |-> TRUE, path |-> "update", req |-> clock + 1]]
              /\ UNCHANGED toast
         ELSE IF enabled /\ revision = Rev2
         THEN \* throw new Error("Location not available yet..."); catch; finally
              /\ toast' = [toast EXCEPT ![u] = "error"]
              /\ UNCHANGED <<isSharing, loading, toggling, writes, clock>>
         ELSE \* setIsSharing(enabled); await upsert({..., is_sharing: false})
              /\ Send(flagUpsert(u, prod, clock + 1)
                        \cup PublishEffect(u, enabled, g, prod, clock + 2))
              /\ isSharing' = [isSharing EXCEPT ![u] = enabled]
              /\ loading' = [loading EXCEPT ![u] = TRUE]
              /\ toggling' = [toggling EXCEPT ![u] =
                    [state |-> "await", enabled |-> enabled, path |-> "upsert", req |-> clock + 1]]
              /\ UNCHANGED toast
  /\ UNCHANGED <<revision, selectedProduction, geo, reads, responses, store>>
  /\ UNCHANGED <<codecVars, presenceVars, viewVars>>

\* The answer to an upsert.  Only toggleLocationSharing acts on one; the
\* updateLocation the effect called logs an error and changes nothing, so
\* its answer is not kept.
Answer(req, error) ==
  IF req.origin \in {"toggle", "session"}
  THEN {[id |-> req.id, auth |-> req.auth, error |-> error]}
  ELSE {}

\* The store executes an upsert and answers.
StoreUpsert(req) ==
  LET res == Upsert(store, req)
  IN  /\ store' = res.rows
      /\ writes' = writes \ {req}
      /\ responses' = responses \cup Answer(req, res.error)
      /\ UNCHANGED <<revision, clientVars, reads, clock>>
      /\ UNCHANGED <<codecVars, presenceVars, viewVars>>

\* The request fails on the way: the client gets an error, the store nothing.
WriteFails(req) ==
  /\ writes' = writes \ {req}
  /\ responses' = responses \cup Answer(req, "network")
  /\ UNCHANGED <<revision, clientVars, reads, store, clock>>
  /\ UNCHANGED <<codecVars, presenceVars, viewVars>>

\* toggleLocationSharing resumes after its await.  updateLocation has caught
\* its own error; the flag upsert's error is thrown to the catch block.
ToggleResume(u, resp) ==
  /\ toggling[u] # Idle
  /\ resp.auth = u /\ resp.id = toggling[u].req
  /\ LET t       == toggling[u]
         failed  == t.path = "upsert" /\ resp.error # "none"
         sharing == IF failed THEN ~t.enabled ELSE isSharing[u]
     IN  /\ Send(PublishEffect(u, sharing, geo[u], selectedProduction[u], clock + 1))
         /\ isSharing' = [isSharing EXCEPT ![u] = sharing]
         /\ toast' = [toast EXCEPT ![u] =
               IF failed THEN "error" ELSE IF t.path = "update" THEN "enabled" ELSE "disabled"]
  /\ loading' = [loading EXCEPT ![u] = FALSE]
  /\ toggling' = [toggling EXCEPT ![u] = Idle]
  /\ responses' = responses \ {resp}
  /\ UNCHANGED <<revision, selectedProduction, geo, reads, store>>
  /\ UNCHANGED <<codecVars, presenceVars, viewVars>>

\* fetchLocationShareStatus resumes with the answer to its select, which the
\* store computes from the rows it holds when it answers:
\* setIsSharing(data?.is_sharing || false).  .single() reports "no row" and
\* "several rows" as PGRST116, which the first revision lets pass;
\* .maybeSingle() reports "several rows" as an error, and an error changes
\* nothing.
StatusResponse(u, q) ==
  /\ q.auth = u
  /\ LET result  == SelectStatus(store, u, q.production_id)
         ignored == result = "several" /\ revision = Rev2
         sharing == IF ignored THEN isSharing[u] ELSE result = "true"
     IN  /\ Send(PublishEffect(u, sharing, geo[u], selectedProduction[u], clock + 1))
         /\ isSharing' = [isSharing EXCEPT ![u] = sharing]
  /\ reads' = reads \ {q}
  /\ UNCHANGED <<revision, selectedProduction, loading, geo, toggling, toast,
                 responses, store>>
  /\ UNCHANGED <<codecVars, presenceVars, viewVars>>

\* The status select fails: console.error, no state change.
ReadFails(q) ==
  /\ reads' = reads \ {q}
  /\ UNCHANGED <<revision, clientVars, writes, responses, store, clock>>
  /\ UNCHANGED <<codecVars, presenceVars, viewVars>>

\* ------------------------------------------------------ publisher harness
\* Readings: the fix (40.0, -74.0) and a fix on the equator.
Fixes == { <<40 * Unit, (-74) * Unit>>, <<0, 10 * Resolution + 1>> }

\* The reading a team member's position write carries.
TeamFix == <<40 * Unit, (-74) * Unit>>

\* The users that act in Spec; the others stay signed in and idle.
Actors == {"u1"}

PublisherInit ==
  /\ revision \in {Rev1, Rev2}
  /\ selectedProduction = [u \in Users |-> None]
  /\ isSharing = [u \in Users |-> FALSE]
  /\ loading = [u \in Users |-> FALSE]
  /\ geo = [u \in Users |-> [latitude |-> Null, longitude |-> Null, error |-> FALSE]]
  /\ toggling = [u \in Users |-> Idle]
  /\ toast = [u \in Users |-> "none"]
  /\ writes = {} /\ reads = {} /\ responses = {}
  /\ store = {}
  /\ clock = 0

Next ==
  \/ \E u \in Actors, p \in Productions \cup {None} : SelectProduction(u, p)
  \/ \E u \in Actors, f \in Fixes : GeoFix(u, f)
  \/ \E u \in Actors : GeoError(u)
  \/ \E u \in Actors : Toggle(u)
  \/ \E req \in writes : StoreUpsert(req)
  \/ \E req \in writes : WriteFails(req)
  \/ \E u \in Actors, resp \in responses : ToggleResume(u, resp)
  \/ \E q \in reads : ReadFails(q)
  \/ \E u \in Actors, q \in reads : StatusResponse(u, q)

Init == PublisherInit /\ CodecAtRest /\ PresenceAtRest /\ ViewsAtRest

Spec == Init /\ [][Next]_vars

\* ------------------------------------------------- row-level security
\* A component of user u sends a write: the position write of updateLocation
\* or the flag write of the disable branch.
ClientSends(u, p, sharing, f) ==
  LET g == [latitude |-> Num(f[1]), longitude |-> Num(f[2]), error |-> FALSE]
  IN  /\ clock < MaxCommits
      /\ Send(IF sharing THEN updateLocation(u, TRUE, g, p, "effect", clock + 1)
                         ELSE flagUpsert(u, p, clock + 1))
      /\ UNCHANGED <<revision, clientVars, reads, responses, store>>
      /\ UNCHANGED <<codecVars, presenceVars, viewVars>>

\* The session of user a sends an upsert no component sends: a row naming
\* user v, with the id of a stored row or a fresh one.
SessionSends(a, v, p, id) ==
  /\ clock < MaxCommits
  /\ Send({ [id |-> id, auth |-> a, origin |-> "session",
             user_id |-> v, production_id |-> p,
             latitude |-> Null, longitude |-> Null, grid_reference |-> Null,
             is_sharing |-> TRUE, last_updated |-> clock + 1] })
  /\ UNCHANGED <<revision, clientVars, reads, responses, store>>
  /\ UNCHANGED <<codecVars, presenceVars, viewVars>>

PolicyNext ==
  \/ \E u \in Users, p \in Productions, sharing \in BOOLEAN :
        ClientSends(u, p, sharing, TeamFix)
  \/ \E a \in Users, v \in Users, p \in Productions :
        \E id \in {r.id : r \in store} \cup {clock + 1} : SessionSends(a, v, p, id)
  \/ \E req \in writes : StoreUpsert(req)

InitPolicy == PublisherInit /\ CodecAtRest /\ PresenceAtRest /\ ViewsAtRest

SpecPolicy == InitPolicy /\ [][PolicyNext]_vars

\* ------------------------------------------------------- subscribing views
\* The three view components that subscribe to location_shares changes.
LocationMap1 == "LocationMap.tsx"        \* effect discards the unsubscribe
LocationMap2 == "part_003"               \* effect returns the unsubscribe
Tracking == "UserTrackingPage.tsx"       \* effect discards it; has the timer

\* useEffect(() => { ...; return unsubscribe; }): the subscribe effect has a
\* cleanup that removes its channel.
ReturnsUnsubscribe(file) == file = LocationMap2

\* A view without setInterval(fetchUserLocations, 30000).
NoInterval(file) == FALSE

\* const interval = setInterval(fetchUserLocations, 30000);
\* return () => clearInterval(interval);
HasInterval(file) == file = Tracking

\* An interval effect without a cleanup.
NoClearInterval(file) == FALSE

\* return () => clearInterval(interval): the interval effect has a cleanup
\* that stops its timer.
ReturnsClearInterval(file) == file = Tracking

\* .select('*').eq('production_id', p) and, in the map views,
\* .eq('is_sharing', true).
SelectRows(rows, p, file) ==
  { r \in rows : /\ r.production_id = p
                 /\ file = Tracking \/ r.is_sharing }

\* A callback that sends no select.
StartNoFetch(p) == {}

\* fetchTeamLocations / fetchUserLocations of a render whose
\* selectedProduction is p, up to its await: the select it sends.
StartFetch(p) ==
  IF p = None THEN {} ELSE {[production |-> p, state |-> "sent"]}

\* subscribeToLocationUpdates of a render whose selectedProduction is p.
Subscribe(p) == IF p = None THEN {} ELSE {p}

\* The parent passes another selectedProduction: the cleanups of the
\* effects run, then the effects (fetch, subscribe, setInterval).
ViewSelect(p) ==
  /\ p # viewProduction
  /\ viewProduction' = p
  /\ IF mounted
     THEN LET kept == IF ReturnsUnsubscribe(viewFile)
                      THEN channels \ {viewProduction} ELSE channels
          IN  /\ channels' = kept \cup Subscribe(p)
              /\ events' = events \cap kept
              /\ intervals' =
                   IF HasInterval(viewFile)
                   THEN (IF ReturnsClearInterval(viewFile) THEN {} ELSE intervals)
                          \cup Subscribe(p)
                   ELSE intervals
              /\ fetches' = fetches \cup StartFetch(p)
              /\ viewLoading' = IF p = None THEN viewLoading ELSE TRUE
     ELSE UNCHANGED <<channels, events, intervals, fetches, viewLoading>>
  /\ UNCHANGED <<viewFile, mounted, locations>>
  /\ UNCHANGED <<codecVars, presenceVars, publisherVars>>

\* The view unmounts: the cleanups of its effects run.
Unmount ==
  /\ mounted
  /\ mounted' = FALSE
  /\ channels' = IF ReturnsUnsubscribe(viewFile) THEN {} ELSE channels
  /\ events' = events \cap channels'
  /\ intervals' = IF ReturnsClearInterval(viewFile) THEN {} ELSE intervals
  /\ UNCHANGED <<viewFile, viewProduction, locations, viewLoading, fetches>>
  /\ UNCHANGED <<codecVars, presenceVars, publisherVars>>

\* A team member's upsert is committed (a position write, or a flag write
\* when sharing is FALSE); the change feed notifies the channels filtered on
\* the row's production.
Commit(u, p, sharing, f) ==
  LET g    == [latitude |-> Num(f[1]), longitude |-> Num(f[2]), error |-> FALSE]
      sent == IF sharing THEN updateLocation(u, TRUE, g, p, "effect", clock + 1)
                         ELSE flagUpsert(u, p, clock + 1)
      res  == Upsert(store, CHOOSE req \in sent : TRUE)
  IN  /\ clock < MaxCommits
      /\ sent # {} /\ res.error = "none"
      /\ store' = res.rows
      /\ clock' = clock + 1
      /\ events' = events \cup (channels \cap {p})
      /\ UNCHANGED <<revision, clientVars, netVars>>
      /\ UNCHANGED <<viewFile, mounted, viewProduction, locations, viewLoading,
                     channels, intervals, fetches>>
      /\ UNCHANGED <<codecVars, presenceVars>>

\* The channel's callback runs: fetchTeamLocations() / fetchUserLocations()
\* of the render that subscribed, whose selectedProduction is the filter.
EventDelivered(p) ==
  /\ p \in events
  /\ events' = events \ {p}
  /\ fetches' = fetches \cup StartFetch(p)
  /\ viewLoading' = IF mounted THEN TRUE ELSE viewLoading
  /\ UNCHANGED <<viewFile, mounted, viewProduction, locations, channels, intervals>>
  /\ UNCHANGED <<codecVars, presenceVars, publisherVars>>

\* The change notification never reaches the client.
EventLost(p) ==
  /\ p \in events
  /\ events' = events \ {p}
  /\ UNCHANGED <<viewFile, mounted, viewProduction, locations, viewLoading,
                 channels, intervals, fetches>>
  /\ UNCHANGED <<codecVars, presenceVars, publisherVars>>

\* The interval of the render that selected p ticks: fetchUserLocations().
IntervalFires(p) ==
  /\ p \in intervals
  /\ fetches' = fetches \cup StartFetch(p)
  /\ viewLoading' = TRUE
  /\ UNCHANGED <<viewFile, mounted, viewProduction, locations, channels,
                 intervals, events>>
  /\ UNCHANGED <<codecVars, presenceVars, publisherVars>>

\* <Button onClick={fetchUserLocations} disabled={loading}> of the tracking
\* view.
Refresh ==
  /\ viewFile = Tracking /\ mounted /\ ~viewLoading /\ viewProduction # None
  /\ fetches' = fetches \cup StartFetch(viewProduction)
  /\ viewLoading' = TRUE
  /\ UNCHANGED <<viewFile, mounted, viewProduction, locations, channels,
                 intervals, events>>
  /\ UNCHANGED <<codecVars, presenceVars, publisherVars>>

\* The store answers a select of the view from the rows it holds.
StoreSelect(f) ==
  /\ f.state = "sent"
  /\ fetches' = (fetches \ {f}) \cup
       {[production |-> f.production, state |-> "read",
         rows |-> SelectRows(store, f.production, viewFile)]}
  /\ UNCHANGED <<viewFile, mounted, viewProduction, locations, viewLoading,
                 channels, intervals, events>>
  /\ UNCHANGED <<codecVars, presenceVars, publisherVars>>

\* The fetch resumes with its rows: setLocations(...); finally
\* setLoading(false).  React drops the updates of an unmounted component.
FetchResponse(f) ==
  /\ f.state = "read"
  /\ fetches' = fetches \ {f}
  /\ IF mounted
     THEN locations' = f.rows /\ viewLoading' = FALSE
     ELSE UNCHANGED <<locations, viewLoading>>
  /\ UNCHANGED <<viewFile, mounted, viewProduction, channels, intervals, events>>
  /\ UNCHANGED <<codecVars, presenceVars, publisherVars>>

\* The select of a fetch fails: if (error) throw error; the catch block logs
\* and shows the error toast, without a setLocations / setUserLocations call;
\* finally setLoading(false).
FetchFails(f) ==
  /\ f.state = "sent"
  /\ fetches' = fetches \ {f}
  /\ viewLoading' = IF mounted THEN FALSE ELSE viewLoading
  /\ UNCHANGED <<viewFile, mounted, viewProduction, locations, channels,
                 intervals, events>>
  /\ UNCHANGED <<codecVars, presenceVars, publisherVars>>

\* ---------------------------------------------------------- views harness
\* The team: u1 shares positions, u2's writes are flag writes.
Shares(u) == u = "u1"

ViewsInit ==
  /\ viewFile \in {LocationMap1, LocationMap2, Tracking}
  /\ mounted = TRUE /\ viewProduction = None
  /\ locations = {} /\ viewLoading = FALSE
  /\ channels = {} /\ intervals = {} /\ fetches = {} /\ events = {}

ViewsNext ==
  \/ \E p \in Productions \cup {None} : ViewSelect(p)
  \/ Unmount
  \/ \E u \in Users, p \in Productions : Commit(u, p, Shares(u), TeamFix)
  \/ \E p \in Productions : EventDelivered(p)
  \/ \E p \in Productions : IntervalFires(p)
  \/ Refresh
  \/ \E f \in fetches : StoreSelect(f)
  \/ \E f \in fetches : FetchResponse(f)

InitViews == ViewsInit /\ CodecAtRest /\ PresenceAtRest /\ PublisherAtRest

\* The views on a store whose selects may fail.
ViewsFaultyNext ==
  \/ ViewsNext
  \/ \E f \in fetches : FetchFails(f)

SpecViews == InitViews /\ [][ViewsFaultyNext]_vars

\* const mapLocations = locations.filter(loc => loc.latitude &&
\*   loc.longitude && loc.is_sharing): the rows the map draws a marker for.
mapLocations(rows) ==
  { r \in rows : Truthy(r.latitude) /\ Truthy(r.longitude) /\ r.is_sharing }

\* A team member switches sharing off: the disable branch's upsert reaches
\* the store, which executes it; a refused write changes no row, so the
\* change feed has nothing to notify.
ToggleOff(u, p) ==
  LET res == Upsert(store, CHOOSE req \in flagUpsert(u, p, clock + 1) : TRUE)
  IN  /\ clock < MaxCommits
      /\ store' = res.rows
      /\ clock' = clock + 1
      /\ events' = IF res.error = "none" THEN events \cup (channels \cap {p})
                                         ELSE events
      /\ UNCHANGED <<revision, clientVars, netVars>>
      /\ UNCHANGED <<viewFile, mounted, viewProduction, locations, viewLoading,
                     channels, intervals, fetches>>
      /\ UNCHANGED <<codecVars, presenceVars>>

\* The team map (either revision of LocationMap) with team members who
\* share and who switch sharing off.
MapNext ==
  \/ \E p \in Productions \cup {None} : ViewSelect(p)
  \/ Unmount
  \/ \E u \in Users, p \in Productions : Commit(u, p, Shares(u), TeamFix)
  \/ \E u \in Users, p \in Productions : ToggleOff(u, p)
  \/ \E p \in Productions : EventDelivered(p)
  \/ \E f \in fetches : StoreSelect(f)
  \/ \E f \in fetches : FetchResponse(f)
  \/ \E f \in fetches : FetchFails(f)

InitMap ==
  /\ viewFile \in {LocationMap1, LocationMap2} /\ ViewsInit
  /\ CodecAtRest /\ PresenceAtRest /\ PublisherAtRest

SpecMap == InitMap /\ [][MapNext]_vars

\* The tracking view on an unreliable change feed: a notification may be
\* lost.  The interval keeps ticking, the store answers every select and
\* every answer arrives.
TrackingNext ==
  \/ ViewsNext
  \/ \E p \in Productions : EventLost(p)

TrackingFairness ==
  /\ \A p \in Productions : WF_vars(IntervalFires(p))
  /\ WF_vars(\E f \in fetches : StoreSelect(f))
  /\ WF_vars(\E f \in fetches : FetchResponse(f))

InitTracking ==
  /\ viewFile = Tracking /\ ViewsInit
  /\ CodecAtRest /\ PresenceAtRest /\ PublisherAtRest

SpecTracking == InitTracking /\ [][TrackingNext]_vars /\ TrackingFairness

\* ==================================================================== claims
\* ------------------------------------------------------------- grid codec
UpperCase == CharA .. CharZ
Digits == Char0 .. Char9

\* ^[A-Z]:[1-9][0-9]?$
IsCellLabel(s) ==
  /\ Len(s) \in {3, 4}
  /\ s[1] \in UpperCase
  /\ s[2] = Colon
  /\ s[3] \in Digits \ {Char0}
  /\ Len(s) = 4 => s[4] \in Digits

\* One uppercase letter, a colon, one or more digits, and nothing else.
IsGridPattern(s) ==
  /\ Len(s) >= 3
  /\ s[1] \in UpperCase
  /\ s[2] = Colon
  /\ \A i \in 3 .. Len(s) : s[i] \in Digits

\* C1: every label coordsToGrid returns, for negative readings too, is one
\* letter 'A'..'Z', a colon and a number 1..99 without a leading zero.
C1_EncodeFormat ==
  cStep \in {"encoded", "decoded", "reencoded"} => IsCellLabel(cLabel)

\* C2: the label survives decode-then-encode, and the decode in between is
\* never null.
C2_LabelStable ==
  /\ cStep = "decoded" => cCoords # NULL
  /\ cStep = "reencoded" => cRelabel = cLabel

\* Every label "<L>:<n>" with L in 'A'..'Z' and n in 1..99, with the index of
\* L and n - 1.
CellTable ==
  { <<(<<l, Colon>> \o NumberToString(n)), l - CharA, n - 1>> :
      l \in UpperCase, n \in 1 .. LngCells }

\* C3: a well-formed label "<L>:<n>", n in 1..99, decodes to the cell anchor
\* (index of L)/1000, (n-1)/1000; "Z:99" to (0.025, 0.098), "A:1" to (0, 0).
C3_DecodeAnchor ==
  (cStep = "parsed" /\ Len(cGrid) \in {3, 4}) =>
    /\ \A e \in CellTable :
          cGrid = e[1] => cCoords = [null |-> FALSE,
                                     lat  |-> e[2] * Resolution,
                                     lng  |-> e[3] * Resolution]
    /\ cGrid = <<CharZ, Colon, Char9, Char9>>
          => (cCoords.lat * Scale = 25 * Unit /\ cCoords.lng * Scale = 98 * Unit)
    /\ cGrid = <<CharA, Colon, Char0 + 1>>
          => (cCoords.lat = 0 /\ cCoords.lng = 0)

C3_Witness ==
  /\ cStep = "parsed"
  /\ cGrid = <<CharZ, Colon, Char9, Char9>>
  /\ cCoords = [null |-> FALSE, lat |-> 25 * Resolution, lng |-> 98 * Resolution]

\* C4: gridToCoords answers null exactly for the strings that are not one
\* uppercase letter, a colon and one or more digits, and always answers.
C4_NullIffMalformed ==
  cStep = "parsed" =>
    /\ cCoords # Pending
    /\ (cCoords = NULL) <=> ~IsGridPattern(cGrid)

C4_Witness ==
  /\ cStep = "parsed"
  /\ cGrid = NotAGrid
  /\ cCoords = NULL

\* C5: whatever label gridToCoords accepts, the decoded letter base lies in
\* 0..25 and the decoded number base in 0..98.
C5_DecodedInGrid ==
  (cStep \in {"parsed", "decoded"} /\ cCoords # NULL) =>
    /\ 0 <= cCoords.lat * Scale /\ cCoords.lat * Scale <= (LatCells - 1) * Unit
    /\ 0 <= cCoords.lng * Scale /\ cCoords.lng * Scale <= (LngCells - 1) * Unit

\* ------------------------------------------------------ presence classifier
Rendered(r) == r # NotRendered

\* The status a colour tag and a status text stand for.
StatusOfColor(c) ==
  CASE c = "bg-gray-500"   -> "NOT_SHARING"
    [] c = "bg-green-500"  -> "ONLINE"
    [] c = "bg-yellow-500" -> "RECENTLY_ACTIVE"
    [] c = "bg-red-500"    -> "OFFLINE"
    [] OTHER               -> "?"

StatusOfText(t) ==
  CASE t = "Not sharing"     -> "NOT_SHARING"
    [] t = "Online"          -> "ONLINE"
    [] t = "Recently active" -> "RECENTLY_ACTIVE"
    [] t = "Offline"         -> "OFFLINE"
    [] OTHER                 -> "??"

\* C6: a row with isSharing = false is classified NOT_SHARING ('Not sharing',
\* grey) whatever its lastUpdated and whatever the time.
C6_NotSharing ==
  ~pRow.is_sharing =>
    /\ Rendered(pText) => pText.value = "Not sharing"
    /\ Rendered(pColor) => pColor.value = "bg-gray-500"

C6_Witness ==
  /\ ~pRow.is_sharing
  /\ Rendered(pText) /\ pText.value = "Not sharing"
  /\ Rendered(pColor) /\ pColor.value = "bg-gray-500"
  /\ pText.at - pRow.last_updated < OnlineMinutes * MsPerMinute

\* The status the claim gives a sharing row of the given age in ms.
ClaimedStatus(age) ==
  CASE age < 5 * 60 * 1000                            -> "ONLINE"
    [] 5 * 60 * 1000 <= age /\ age < 30 * 60 * 1000   -> "RECENTLY_ACTIVE"
    [] age >= 30 * 60 * 1000                          -> "OFFLINE"

\* C7: a sharing row is ONLINE below 5 minutes of age, RECENTLY_ACTIVE from 5
\* minutes up to but not including 30, OFFLINE from 30 minutes on; the text
\* and the colour computed at the same instant agree.
C7_Thresholds ==
  pRow.is_sharing =>
    /\ Rendered(pText) =>
          /\ StatusOfText(pText.value) = ClaimedStatus(pText.at - pRow.last_updated)
          /\ pText.at - pRow.last_updated = 4 * 60000 + 59000 => pText.value = "Online"
          /\ pText.at - pRow.last_updated = 5 * 60000 => pText.value = "Recently active"
          /\ pText.at - pRow.last_updated = 29 * 60000 + 59000 => pText.value = "Recently active"
          /\ pText.at - pRow.last_updated = 30 * 60000 => pText.value = "Offline"
          /\ pText.at - pRow.last_updated = 31 * 60000 => pText.value = "Offline"
    /\ Rendered(pColor) =>
          StatusOfColor(pColor.value) = ClaimedStatus(pColor.at - pRow.last_updated)
    /\ (Rendered(pText) /\ Rendered(pColor) /\ pText.at = pColor.at) =>
          StatusOfText(pText.value) = StatusOfColor(pColor.value)

C7_Witness ==
  /\ pRow.is_sharing
  /\ Rendered(pText) /\ Rendered(pColor)
  /\ pText.at = pColor.at
  /\ pText.at - pRow.last_updated = 5 * 60000
  /\ pText.value = "Recently active"
  /\ pColor.value = "bg-yellow-500"

\* ------------------------------------------------------ location publisher
\* The rows of the store that belong to one (user_id, production_id) pair.
RowsOf(rows, u, p) == {r \in rows : r.user_id = u /\ r.production_id = p}

\* C8: the store holds at most one location_shares row per (user_id,
\* production_id), and every fix or toggle write the store executes succeeds
\* and leaves the pair's single row carrying that write: the first creates
\* the row, every later one updates it.
C8_UpdateInPlace ==
  [][\A req \in writes :
       StoreUpsert(req) =>
         /\ Upsert(store, req).error = "none"
         /\ \A u \in Users, p \in Productions : Cardinality(RowsOf(store', u, p)) <= 1
         /\ \E r \in RowsOf(store', req.user_id, req.production_id) :
              /\ r.is_sharing = req.is_sharing
              /\ r.last_updated = req.last_updated]_vars

\* The writes a step puts on the wire that carry a position.
LocationWritesIssued == {req \in writes' \ writes : req.latitude # Null}

\* C9: every write updateLocation issues, from the publish effect or from
\* the enable path of the toggle handler, carries is_sharing = true, the
\* reading's latitude and longitude, grid_reference = coordsToGrid(latitude,
\* longitude), and the key (signed-in user, selected production).
C9_FixWritePayload ==
  [][\A req \in LocationWritesIssued :
       /\ req.is_sharing = TRUE
       /\ req.latitude = geo'[req.auth].latitude
       /\ req.longitude = geo'[req.auth].longitude
       /\ req.grid_reference = coordsToGrid(req.latitude[1], req.longitude[1])
       /\ req.user_id = req.auth
       /\ req.production_id = selectedProduction'[req.auth]]_vars

\* C10: a write that carries latitude/longitude is issued only by a step
\* that leaves the component with sharing enabled, a coordinate reading and
\* a selected production.
C10_WriteOnlyWhenSharing ==
  [][\A req \in LocationWritesIssued :
       /\ isSharing'[req.auth]
       /\ geo'[req.auth].latitude # Null /\ geo'[req.auth].longitude # Null
       /\ selectedProduction'[req.auth] # None]_vars

\* A position write of the publish effect is on the wire for the production
\* the user has selected and shares on.
C10_Witness ==
  \E req \in writes :
    /\ req.latitude # Null /\ req.origin = "effect"
    /\ isSharing[req.auth] /\ selectedProduction[req.auth] = req.production_id

IsOffWrite(req) ==
  /\ req.origin = "toggle" /\ req.latitude = Null
  /\ toggling[req.auth] # Idle
  /\ toggling[req.auth].req = req.id /\ ~toggling[req.auth].enabled

\* C12: when the store executes the write of a toggle to OFF, the pair's row
\* afterwards has is_sharing = false and last_updated = the write's stamp,
\* and keeps the latitude, longitude and grid_reference it had.
C12_OffKeepsPosition ==
  [][\A req \in writes :
       (IsOffWrite(req) /\ StoreUpsert(req)) =>
         \E r \in RowsOf(store', req.user_id, req.production_id) :
           /\ r.is_sharing = FALSE
           /\ r.last_updated = req.last_updated
           /\ \A o \in RowsOf(store, req.user_id, req.production_id) :
                /\ r.latitude = o.latitude /\ r.longitude = o.longitude
                /\ r.grid_reference = o.grid_reference]_vars

\* C13: when the write of a toggle (to ON or to OFF) fails, the toggle
\* completes with isSharing back at its pre-toggle value and the error
\* toast, and the failed write leaves the store as it was.
C13_RollbackOnFailure ==
  [][/\ \A u \in Users, resp \in responses :
          (resp.error # "none" /\ ToggleResume(u, resp)) =>
             /\ isSharing'[u] = ~toggling[u].enabled
             /\ toast'[u] = "error"
     /\ \A req \in writes :
          (req.origin = "toggle" /\ Upsert(store, req).error # "none"
             /\ StoreUpsert(req)) => store' = store]_vars

\* Two position writes of the publish effect for one pair, in flight together.
RacingWrites ==
  { ab \in writes \X writes :
      /\ ab[1].last_updated < ab[2].last_updated
      /\ ab[1].origin = "effect" /\ ab[2].origin = "effect"
      /\ ab[1].user_id = ab[2].user_id
      /\ ab[1].production_id = ab[2].production_id }

\* What a row shows of the write that produced it.
Position(r) ==
  <<r.latitude, r.longitude, r.grid_reference, r.last_updated>>

\* C14: when two fix writes for one pair are in flight together, the store
\* executing them in either order ends with exactly one row for the pair,
\* with the position and stamp of the later-stamped write.
C14_LaterWriteWins ==
  \A ab \in RacingWrites :
    LET a == ab[1]
        b == ab[2]
        ab_rows == Upsert(Upsert(store, a).rows, b).rows
        ba_rows == Upsert(Upsert(store, b).rows, a).rows
    IN  /\ { Position(r) : r \in RowsOf(ab_rows, b.user_id, b.production_id) }
             = { Position(b) }
        /\ { Position(r) : r \in RowsOf(ba_rows, b.user_id, b.production_id) }
             = { Position(b) }

\* ------------------------------------------------------ subscribing views
\* C15: a view holds at most one channel, only for the production it has
\* selected, and none once it is unmounted: changing the production or
\* unmounting removes the channel of the production left.
C15_OneChannel ==
  /\ Cardinality(channels) <= 1
  /\ mounted => channels \subseteq {viewProduction}
  /\ ~mounted => channels = {}

\* C16: the rows a view displays are rows of the production it has selected
\* (or the empty, not yet loaded list): no event or fetch response of a
\* production left behind is applied.
C16_NoStaleProduction ==
  \A r \in locations : r.production_id = viewProduction

\* C17: once the view is unmounted none of its channels or intervals is
\* active, no fetch is started for it, and no step changes its displayed
\* rows or loading flag.
C17_UnmountCancels ==
  [][~mounted =>
       /\ channels = {} /\ intervals = {}
       /\ fetches' \subseteq fetches \cup {f \in fetches' : f.state = "read"}
       /\ UNCHANGED <<locations, viewLoading>>]_vars

\* C19: when no change event and no fetch is outstanding, the rows a mounted
\* view displays are the store's current rows of the selected production.
C19_SnapshotAuthoritative ==
  (mounted /\ viewProduction # None /\ events = {} /\ fetches = {}) =>
     locations = SelectRows(store, viewProduction, viewFile)

C21_EmptyOnFailure ==
  [][\A f \in fetches :
       (mounted /\ FetchFails(f)) =>
          locations' = {} /\ viewLoading' = FALSE]_vars

C23_TrueModulo ==
  cStep \in {"encoded", "decoded", "reencoded"} =>
     cLabel = <<CharA + (FloorScaled(cLat) % LatCells), Colon>>
                \o NumberToString((FloorScaled(cLng) % LngCells) + 1)

\* ------------------------------------------------------ subscribing views
\* C24: every change notification a channel receives starts a fetch of the
\* rows of the production the channel filters on and leaves the displayed
\* rows alone; the displayed rows change only by being replaced with the
\* rows of a completed fetch, which are a full select of that production.
C24_RefetchOnEvent ==
  /\ [][\A p \in Productions :
          EventDelivered(p) =>
             /\ [production |-> p, state |-> "sent"] \in fetches'
             /\ locations' = locations]_vars
  /\ [][locations' # locations =>
          \E f \in fetches : f.state = "read" /\ locations' = f.rows]_vars
  /\ [](\A f \in fetches :
          f.state = "read" =>
             \A r \in f.rows : r.production_id = f.production)

\* A second row of the selected production was committed while the first was
\* on display, and the re-fetch its notification started has read the store.
C24_Witness ==
  /\ mounted /\ viewProduction \in channels /\ locations # {}
  /\ \E f \in fetches :
       /\ f.state = "read" /\ f.production = viewProduction
       /\ f.rows = SelectRows(store, viewProduction, viewFile)
       /\ f.rows # locations

\* ------------------------------------------------------ location publisher
\* C25: when a user selects a production that holds no row of theirs and
\* that no write of theirs is on its way to, the step issues no write with
\* that production_id and is_sharing = true: nothing is published to a
\* production before the user has enabled sharing for it.
C25_NoWriteBeforeEnable ==
  [][\A u \in Users, p \in Productions :
       ( /\ SelectProduction(u, p)
         /\ RowsOf(store, u, p) = {}
         /\ \A req \in writes : ~(req.user_id = u /\ req.production_id = p) ) =>
          \A req \in writes' \ writes :
             ~(req.user_id = u /\ req.production_id = p /\ req.is_sharing)]_vars

\* The outcomes of the store executing the writes ws in some order: the rows
\* it ends with and the ids of the writes it refused.
RECURSIVE Arrivals(_, _)
Arrivals(rows, ws) ==
  IF ws = {} THEN { [rows |-> rows, refused |-> {}] }
  ELSE UNION { LET res == Upsert(rows, w)
               IN  { [rows |-> o.rows,
                      refused |-> o.refused \cup
                                    (IF res.error = "none" THEN {} ELSE {w.id})] :
                     o \in Arrivals(res.rows, ws \ {w}) } :
               w \in ws }

\* The is_sharing the store holds for a pair; no row counts as false.
StoredSharing(rows, u, p) == \E r \in RowsOf(rows, u, p) : r.is_sharing

\* C26: while a toggle awaits its write, whatever order the store executes
\* the session's writes in flight in, if the toggle's write is accepted (the
\* enable path completes successfully in any case) the stored is_sharing of
\* the pair ends equal to the value the switch was set to.
C26_FlagAgreement ==
  \A u \in Users, tw \in writes :
    (toggling[u] # Idle /\ tw.auth = u /\ tw.id = toggling[u].req) =>
       \A o \in Arrivals(store, {w \in writes : w.auth = u}) :
          (toggling[u].path = "update" \/ tw.id \notin o.refused) =>
             StoredSharing(o.rows, u, tw.production_id) = toggling[u].enabled

\* C27: every fresh reading that arrives while sharing is on and a
\* production is selected puts a write with that reading on the wire, a
\* reading with latitude 0 or longitude 0 included.
C27_EveryFixWritten ==
  [][\A u \in Users, f \in Fixes :
       (GeoFix(u, f) /\ isSharing[u] /\ selectedProduction[u] # None) =>
          \E req \in writes' \ writes :
             /\ req.auth = u /\ req.production_id = selectedProduction[u]
             /\ req.latitude = Num(f[1]) /\ req.longitude = Num(f[2])]_vars

\* C28: at most one toggle is in flight per component: loading is true
\* exactly while a toggle awaits its write, the switch is disabled while
\* loading is true, a toggle starts only with none in flight, and when a
\* toggle ends (write accepted, write failed, or no coordinates to enable
\* with) loading is false.
C28_OneToggleInFlight ==
  /\ [](\A u \in Users :
          /\ loading[u] = (toggling[u] # Idle)
          /\ loading[u] => SwitchDisabled(u))
  /\ [][\A u \in Users :
          Toggle(u) =>
             /\ toggling[u] = Idle
             /\ toggling'[u] = Idle => ~loading'[u]]_vars
  /\ [][\A u \in Users, resp \in responses :
          ToggleResume(u, resp) => ~loading'[u] /\ toggling'[u] = Idle]_vars

\* A toggle awaits its write: loading is on and the write is on the wire.
C28_Witness ==
  \E u \in Users, req \in writes :
    loading[u] /\ toggling[u] # Idle /\ req.auth = u /\ req.id = toggling[u].req

\* ------------------------------------------------------ subscribing views
\* C29: the team map displays only rows of the selected production with
\* is_sharing = true, draws markers only for rows with coordinates, and a
\* team member who switches sharing off is stored as not sharing and, once
\* the change events and fetches have drained, is no longer displayed.
C29_OnlySharing ==
  /\ [](\A r \in locations : r.production_id = viewProduction /\ r.is_sharing)
  /\ [](\A r \in mapLocations(locations) : r.latitude # Null /\ r.longitude # Null)
  /\ [][\A u \in Users, p \in Productions :
          ToggleOff(u, p) => ~StoredSharing(store', u, p)]_vars
  /\ []((mounted /\ events = {} /\ fetches = {}) =>
          \A r \in locations : StoredSharing(store, r.user_id, r.production_id))

\* C30: the tracking view has at most one refresh timer: none while no
\* production is selected or the view is unmounted, exactly the timer of
\* the selected production otherwise, and every tick sends a fetch of the
\* production selected at that time.
C30_OneTimer ==
  /\ [](Cardinality(intervals) <= 1)
  /\ []((~mounted \/ viewProduction = None) => intervals = {})
  /\ []((mounted /\ viewProduction # None) => intervals = {viewProduction})
  /\ [][\A p \in Productions :
          IntervalFires(p) =>
             /\ p = viewProduction
             /\ [production |-> viewProduction, state |-> "sent"] \in fetches']_vars

\* The production was changed (the channel of the one left behind is still
\* there) and one timer runs, for the production now selected.
C30_Witness ==
  /\ viewFile = Tracking /\ mounted
  /\ Cardinality(channels) = 2 /\ intervals = {viewProduction}

====
